---- MODULE Spec2Model ----
(***************************************************************************)
(* Relay core of pg-transactional-outbox: the outbox table, the atomic     *)
(* statements of PostgresOutboxRepository, and the claim / publish /       *)
(* finalize loops of OutboxWorker and of ProcessOutboxUseCase (as run by   *)
(* PollingRelay and NotifyRelay), with the reaper and operator redrive.    *)
(* Spec and LiveSpec are the running system; RepoSpec applies single       *)
(* repository statements to tables of several rows; TokenSpec is the       *)
(* construction of worker instances and their lock tokens.                 *)
(***************************************************************************)
EXTENDS Integers, Sequences, FiniteSets, TLC

\* ---------------------------------------------------------------------
\* Bounds of the model
\* ---------------------------------------------------------------------
MaxEvents == 1        \* rows ever inserted
MaxTime == 3          \* the clock NOW() runs over 0..MaxTime
MaxMaxRetries == 2    \* max_retries of an inserted event is in 0..MaxMaxRetries
MaxRedrives == 1      \* operator redrives issued in one behaviour
BatchSize == 1        \* config.batchSize
LeaseSeconds == 1     \* config.leaseSeconds
Concurrency == 1      \* OutboxWorker config.concurrency
ReaperInterval == 1   \* config.reaperIntervalMs, in the unit of the clock
MaxStarts == 1        \* calls of OutboxWorker.start() in one behaviour
RepoRows == 2         \* rows of the table a statement is exercised on
RepoMaxTime == 2      \* NOW() and lease deadlines of that table are in 0..RepoMaxTime
MaxInstances == 3     \* worker instances constructed in one process
MaxMs == 3            \* Date.now() runs over 1..MaxMs while they are constructed
MaxRandom == 1        \* Math.floor(Math.random() * 1000) is drawn from 0..MaxRandom
MaxPageId == 4        \* ids of the table a page is read from are in 1..MaxPageId
MaxLimit == 2         \* page sizes are in 1..MaxLimit
MaxCalls == 3         \* consumer calls (markProcessed / withIdempotency) in one behaviour
MaxRetentionDays == 1 \* cleanup(olderThanDays) is called with 1..MaxRetentionDays, a day being one tick
MaxBacklogSize == 2   \* BacklogLimiterConfig.maxBacklogSize is in 1..MaxBacklogSize
MaxThreshold == 1     \* the thresholds of HealthCheckerConfig are in 0..MaxThreshold
PollRows == 3         \* PENDING rows in the table a polling worker is started on
PollBatchSize == 2    \* config.batchSize of that worker
PollConcurrency == 1  \* config.concurrency of that worker
MaxNotifyEvents == 2  \* events inserted while a NotifyRelay is observed
MaxProducers == 3     \* producers that go through checkLimit and insert in one behaviour
MaxWorkerStarts == 2  \* calls of start() on that worker in one behaviour

\* ---------------------------------------------------------------------
\* Values
\* ---------------------------------------------------------------------
NULL == -1            \* SQL NULL of the integer-valued columns
NoError == "NULL"     \* SQL NULL of last_error
PublishError == "schema invalid"

EventTypes == {"OrderCreated", "OrderPaid"}

\* Executions that claim events.  "W" is the poll loop of an OutboxWorker;
\* "N1" and "N2" are runs of ProcessOutboxUseCase.execute() started by the
\* same NotifyRelay: process() has no guard against a run in progress, and
\* "N2" is a run started while run "N1" has not returned.
Execs == {"W", "N1", "N2"}

\* The worker or relay instance an execution belongs to.
InstanceOf(x) == IF x = "W" THEN "OutboxWorker" ELSE "NotifyRelay"

\* The fencing token an execution presents: OutboxWorker.workerId, or the
\* lockToken of the relay's single ProcessOutboxUseCase.
lockTokenOf(x) == IF InstanceOf(x) = "OutboxWorker" THEN 1 ELSE 2

\* Events processed in parallel by one execution: the semaphore of
\* OutboxWorker.processBatch, the sequential for-loop of execute().
PermitsOf(x) == IF InstanceOf(x) = "OutboxWorker" THEN Concurrency ELSE 1

\* Only OutboxWorker.processEvent starts a heartbeat timer.
HasHeartbeat(x) == InstanceOf(x) = "OutboxWorker"

VARIABLES
  outbox,      \* the outbox table: id -> row
  nextId,      \* the id sequence of the table
  now,         \* NOW()
  batch,       \* per execution: id -> the OutboxEvent returned by claimBatch, with its progress
  delivered,   \* publisher side: id -> number of publish(event) invocations
  acked,       \* publisher side: id -> a publish(event) returned success
  redrives,    \* operator redrives issued so far
  running,     \* OutboxWorker.running
  starts,      \* calls of OutboxWorker.start() so far
  reaperTimer, \* OutboxWorker.reaperTimer: NULL, or the time since the interval timer last fired
  reaperRan,   \* the reaper timer has fired since start()
  reported,    \* per execution: outcomes reported for the current batch
  ret,         \* the last repository statement applied on its own, with its return value
  dateNow,     \* Date.now() of the process constructing workers
  tokens,      \* lock tokens of the constructed worker instances, in order of construction
  inbox,       \* the inbox table: records (tracking_id, consumer_id, processed_at)
  calls,       \* consumer side: the markProcessed / withIdempotency calls made, with their progress
  polls,       \* OutboxWorker: the poll loops begun by start(), each with its batch and semaphore
  pollTimer    \* OutboxWorker.pollTimer: NULL, or the loop whose setTimeout it holds

relay == <<outbox, nextId, now, batch, delivered, acked, redrives,
           running, starts, reaperTimer, reaperRan, reported>>
idem == <<inbox, calls>>
loopV == <<polls, pollTimer>>
svc == <<idem, loopV>>
aux == <<ret, dateNow, tokens, svc>>
vars == <<relay, aux>>

Ids == DOMAIN outbox

\* ---------------------------------------------------------------------
\* OutboxEvent entity
\* ---------------------------------------------------------------------
canRetry(event) == event.retryCount < event.maxRetries

\* ---------------------------------------------------------------------
\* PostgresOutboxRepository: each statement maps the table to the new table
\* and the affected rows.
\* ---------------------------------------------------------------------
insertRow(maxRetries, eventType) ==
  [status |-> "PENDING", retry_count |-> 0, max_retries |-> maxRetries,
   event_type |-> eventType, created_at |-> now, processed_at |-> NULL,
   locked_until |-> NULL, lock_token |-> NULL, last_error |-> NoError]

\* Faulty variant of Claimable: PENDING is missing from the status list.
Claimable_failedOnly(tbl) ==
  {i \in DOMAIN tbl :
     /\ tbl[i].status \in {"FAILED"}
     /\ (tbl[i].locked_until = NULL \/ tbl[i].locked_until < now)}

\* Rows the sub-select of claimBatch can see.
Claimable(tbl) ==
  {i \in DOMAIN tbl :
     /\ tbl[i].status \in {"PENDING", "FAILED"}
     /\ (tbl[i].locked_until = NULL \/ tbl[i].locked_until < now)}

\* Faulty variant of ClaimChoices: LIMIT batchSize without ORDER BY created_at.
ClaimChoices_anyOrder(tbl, batchSize) ==
  LET C == Claimable(tbl)
      n == IF Cardinality(C) < batchSize THEN Cardinality(C) ELSE batchSize
  IN {S \in SUBSET C : Cardinality(S) = n}

\* The sets of ids ORDER BY created_at LIMIT batchSize can select.
ClaimChoices(tbl, batchSize) ==
  LET C == Claimable(tbl)
      n == IF Cardinality(C) < batchSize THEN Cardinality(C) ELSE batchSize
  IN {S \in SUBSET C :
        /\ Cardinality(S) = n
        /\ \A i \in S, j \in C \ S : tbl[i].created_at <= tbl[j].created_at}

claimBatch(tbl, S, leaseSeconds, lockToken) ==
  [i \in DOMAIN tbl |->
     IF i \in S
       THEN [tbl[i] EXCEPT !.status = "PROCESSING",
                           !.locked_until = now + leaseSeconds,
                           !.lock_token = lockToken]
       ELSE tbl[i]]

\* Faulty variant of HeldBy: WHERE id = $1 without the token.
HeldBy_idOnly(tbl, id, lockToken) == {i \in DOMAIN tbl : i = id}

\* Rows matched by WHERE id = $1 AND lock_token = $2.
HeldBy(tbl, id, lockToken) ==
  {i \in DOMAIN tbl : i = id /\ tbl[i].lock_token # NULL /\ tbl[i].lock_token = lockToken}

markCompleted(tbl, id, lockToken) ==
  LET M == HeldBy(tbl, id, lockToken) IN
  [rows |-> [i \in DOMAIN tbl |->
               IF i \in M
                 THEN [tbl[i] EXCEPT !.status = "COMPLETED", !.processed_at = now,
                                     !.locked_until = NULL, !.lock_token = NULL]
                 ELSE tbl[i]],
   rowCount |-> Cardinality(M)]

\* Faulty variant of markFailed: WHERE id = $1 without the token.
markFailed_unfenced(tbl, id, lockToken, error) ==
  LET M == {i \in DOMAIN tbl : i = id} IN
  [rows |-> [i \in DOMAIN tbl |->
               IF i \in M
                 THEN [tbl[i] EXCEPT !.status = "FAILED",
                                     !.retry_count = tbl[i].retry_count + 1,
                                     !.last_error = error,
                                     !.locked_until = NULL, !.lock_token = NULL]
                 ELSE tbl[i]],
   rowCount |-> Cardinality(M)]

markFailed(tbl, id, lockToken, error) ==
  LET M == HeldBy(tbl, id, lockToken) IN
  [rows |-> [i \in DOMAIN tbl |->
               IF i \in M
                 THEN [tbl[i] EXCEPT !.status = "FAILED",
                                     !.retry_count = tbl[i].retry_count + 1,
                                     !.last_error = error,
                                     !.locked_until = NULL, !.lock_token = NULL]
                 ELSE tbl[i]],
   rowCount |-> Cardinality(M)]

markDeadLetter(tbl, id, lockToken, error) ==
  LET M == HeldBy(tbl, id, lockToken) IN
  [rows |-> [i \in DOMAIN tbl |->
               IF i \in M
                 THEN [tbl[i] EXCEPT !.status = "DEAD_LETTER", !.last_error = error,
                                     !.processed_at = now,
                                     !.locked_until = NULL, !.lock_token = NULL]
                 ELSE tbl[i]],
   rowCount |-> Cardinality(M)]

\* Faulty variant of renewLease: WHERE id = $1 AND status = 'PROCESSING'.
renewLease_unfenced(tbl, id, lockToken, leaseSeconds) ==
  LET M == {i \in DOMAIN tbl : i = id /\ tbl[i].status = "PROCESSING"} IN
  [rows |-> [i \in DOMAIN tbl |->
               IF i \in M THEN [tbl[i] EXCEPT !.locked_until = now + leaseSeconds]
                          ELSE tbl[i]],
   rowCount |-> Cardinality(M)]

renewLease(tbl, id, lockToken, leaseSeconds) ==
  LET M == {i \in HeldBy(tbl, id, lockToken) : tbl[i].status = "PROCESSING"} IN
  [rows |-> [i \in DOMAIN tbl |->
               IF i \in M THEN [tbl[i] EXCEPT !.locked_until = now + leaseSeconds]
                          ELSE tbl[i]],
   rowCount |-> Cardinality(M)]

\* Faulty variants of recoverStaleEvents: the lease columns are left set; the
\* retry counter is reset; nothing is recovered.
recoverStaleEvents_keepsLease(tbl) ==
  LET M == {i \in DOMAIN tbl :
              /\ tbl[i].status = "PROCESSING"
              /\ tbl[i].locked_until # NULL
              /\ tbl[i].locked_until < now} IN
  [rows |-> [i \in DOMAIN tbl |->
               IF i \in M THEN [tbl[i] EXCEPT !.status = "PENDING"] ELSE tbl[i]],
   rowCount |-> Cardinality(M)]

recoverStaleEvents_resetsRetries(tbl) ==
  LET M == {i \in DOMAIN tbl :
              /\ tbl[i].status = "PROCESSING"
              /\ tbl[i].locked_until # NULL
              /\ tbl[i].locked_until < now} IN
  [rows |-> [i \in DOMAIN tbl |->
               IF i \in M
                 THEN [tbl[i] EXCEPT !.status = "PENDING", !.retry_count = 0,
                                     !.locked_until = NULL, !.lock_token = NULL]
                 ELSE tbl[i]],
   rowCount |-> Cardinality(M)]

recoverStaleEvents_none(tbl) == [rows |-> tbl, rowCount |-> 0]

\* Faulty variant of recoverStaleEvents: WHERE status = 'PROCESSING'.
recoverStaleEvents_allProcessing(tbl) ==
  LET M == {i \in DOMAIN tbl : tbl[i].status = "PROCESSING"} IN
  [rows |-> [i \in DOMAIN tbl |->
               IF i \in M
                 THEN [tbl[i] EXCEPT !.status = "PENDING",
                                     !.locked_until = NULL, !.lock_token = NULL]
                 ELSE tbl[i]],
   rowCount |-> Cardinality(M)]

recoverStaleEvents(tbl) ==
  LET M == {i \in DOMAIN tbl :
              /\ tbl[i].status = "PROCESSING"
              /\ tbl[i].locked_until # NULL
              /\ tbl[i].locked_until < now} IN
  [rows |-> [i \in DOMAIN tbl |->
               IF i \in M
                 THEN [tbl[i] EXCEPT !.status = "PENDING",
                                     !.locked_until = NULL, !.lock_token = NULL]
                 ELSE tbl[i]],
   rowCount |-> Cardinality(M)]

redriveRows(tbl, M) ==
  [rows |-> [i \in DOMAIN tbl |->
               IF i \in M
                 THEN [tbl[i] EXCEPT !.status = "PENDING", !.retry_count = 0,
                                     !.last_error = NoError,
                                     !.locked_until = NULL, !.lock_token = NULL]
                 ELSE tbl[i]],
   rowCount |-> Cardinality(M)]

\* Faulty variant of redriveByEventType: WHERE event_type = $1 without the status.
redriveByEventType_anyStatus(tbl, eventType) ==
  redriveRows(tbl, {i \in DOMAIN tbl : tbl[i].event_type = eventType})

redriveByEventType(tbl, eventType) ==
  redriveRows(tbl, {i \in DOMAIN tbl :
                      tbl[i].status = "DEAD_LETTER" /\ tbl[i].event_type = eventType})

redriveById(tbl, id) ==
  redriveRows(tbl, {i \in DOMAIN tbl : i = id /\ tbl[i].status = "DEAD_LETTER"})

cleanup(tbl) ==
  LET M == {i \in DOMAIN tbl : tbl[i].status \in {"COMPLETED", "DEAD_LETTER"}} IN
  [rows |-> [i \in DOMAIN tbl \ M |-> tbl[i]], rowCount |-> Cardinality(M)]

\* mapRowToEvent: the fields of the returned row a worker later reads.
mapRowToEvent(row) ==
  [retryCount |-> row.retry_count, maxRetries |-> row.max_retries, pc |-> "claimed"]

\* ---------------------------------------------------------------------
\* Workers
\* ---------------------------------------------------------------------
\* handleFailure: the repository call chosen for a failed publish.
handleFailureCall(event) ==
  IF canRetry(event) THEN "markFailed" ELSE "markDeadLetter"

\* Faulty variant of handleFailure: a failed publish is recorded as completed.
handleFailure_completes(tbl, id, event, lockToken, error) ==
  markCompleted(tbl, id, lockToken)

handleFailure(tbl, id, event, lockToken, error) ==
  IF handleFailureCall(event) = "markFailed"
    THEN markFailed(tbl, id, lockToken, error)
    ELSE markDeadLetter(tbl, id, lockToken, error)

InFlight(x) == {i \in DOMAIN batch[x] : batch[x][i].pc = "publishing"}

\* ---------------------------------------------------------------------
\* Initial state and actions
\* ---------------------------------------------------------------------
NoResult == [succeeded |-> 0, failed |-> 0, deadLettered |-> 0]
NoCall == [op |-> "none", id |-> NULL, token |-> NULL, rowCount |-> 0]

\* Empty inbox, no consumer call made.
SvcInit ==
  /\ inbox = {}
  /\ calls = <<>>
  /\ polls = <<>>
  /\ pollTimer = NULL

Init ==
  /\ outbox = <<>>
  /\ nextId = 1
  /\ now = 0
  /\ batch = [x \in Execs |-> <<>>]
  /\ delivered = <<>>
  /\ acked = <<>>
  /\ redrives = 0
  /\ running = FALSE
  /\ starts = 0
  /\ reaperTimer = NULL
  /\ reaperRan = FALSE
  /\ reported = [x \in Execs |-> NoResult]
  /\ ret = NoCall
  /\ dateNow = 1
  /\ tokens = <<>>
  /\ SvcInit

\* PublishEventUseCase.execute / repository.insert of OutboxEvent.create(...)
Insert(maxRetries, eventType) ==
  /\ nextId <= MaxEvents
  /\ outbox' = (nextId :> insertRow(maxRetries, eventType)) @@ outbox
  /\ delivered' = (nextId :> 0) @@ delivered
  /\ acked' = (nextId :> FALSE) @@ acked
  /\ nextId' = nextId + 1
  /\ UNCHANGED <<now, batch, redrives, running, starts, reaperTimer, reaperRan, reported, aux>>

\* OutboxWorker.start(): the reaper interval timer is created (reaperEnabled)
\* and the poll loop begins.
Start ==
  /\ ~running
  /\ starts < MaxStarts
  /\ running' = TRUE
  /\ starts' = starts + 1
  /\ reaperTimer' = 0
  /\ reaperRan' = FALSE
  /\ UNCHANGED <<outbox, nextId, now, batch, delivered, acked, redrives, reported, aux>>

\* OutboxWorker.stop(): no await inside, it has completed when it returns.
\* The poll and reaper timers and every heartbeat timer are cleared.
Stop ==
  /\ running
  /\ running' = FALSE
  /\ reaperTimer' = NULL
  /\ reaperRan' = FALSE
  /\ batch' = [batch EXCEPT !["W"] =
                 [i \in DOMAIN batch["W"] |-> [batch["W"][i] EXCEPT !.hb = FALSE]]]
  /\ UNCHANGED <<outbox, nextId, now, delivered, acked, redrives, starts, reported, aux>>

\* OutboxWorker.poll / processBatch, ProcessOutboxUseCase.execute up to the
\* return of repository.claimBatch.  One execution claims again only when its
\* previous batch has been worked off; poll() returns at once when the worker
\* is not running.
ClaimBatch(x, S) ==
  /\ x = "W" => running
  /\ DOMAIN batch[x] = {}
  /\ x = "N2" => DOMAIN batch["N1"] # {}
  /\ S \in ClaimChoices(outbox, BatchSize)
  /\ S # {}
  /\ outbox' = claimBatch(outbox, S, LeaseSeconds, lockTokenOf(x))
  /\ batch' = [batch EXCEPT ![x] =
                 [i \in S |-> [hb |-> FALSE, renewed |-> "none"] @@ mapRowToEvent(outbox'[i])]]
  /\ reported' = [reported EXCEPT ![x] = NoResult]
  /\ UNCHANGED <<nextId, now, delivered, acked, redrives, running, starts, reaperTimer, reaperRan, aux>>

\* processEvent up to the call of publisher.publish(event): a permit is
\* taken, the heartbeat (OutboxWorker) is started, publish is invoked.
StartPublish(x, id) ==
  /\ id \in DOMAIN batch[x]
  /\ batch[x][id].pc = "claimed"
  /\ Cardinality(InFlight(x)) < PermitsOf(x)
  /\ batch' = [batch EXCEPT ![x][id].pc = "publishing", ![x][id].hb = HasHeartbeat(x)]
  /\ delivered' = [delivered EXCEPT ![id] = delivered[id] + 1]
  /\ UNCHANGED <<outbox, nextId, now, acked, redrives, running, starts, reaperTimer, reaperRan, reported, aux>>

\* The outcome a worker reports after its finalize call: the emitted
\* processed / failed / dead-letter event, the counter of the result.
outcomeOf(event, success) ==
  IF success THEN "succeeded"
  ELSE IF handleFailureCall(event) = "markFailed" THEN "failed" ELSE "deadLettered"

\* processEvent from the return of publish to the end: markCompleted on
\* success, handleFailure on a failure result or an exception; the outcome is
\* reported whatever the statement returned; the heartbeat timer is removed.
FinishPublish(x, id, success) ==
  /\ id \in DOMAIN batch[x]
  /\ batch[x][id].pc = "publishing"
  /\ LET event == batch[x][id]
         res == IF success
                  THEN markCompleted(outbox, id, lockTokenOf(x))
                  ELSE handleFailure(outbox, id, event, lockTokenOf(x), PublishError)
     IN /\ outbox' = res.rows
        /\ reported' = [reported EXCEPT ![x][outcomeOf(event, success)] = @ + 1]
  /\ acked' = IF success THEN [acked EXCEPT ![id] = TRUE] ELSE acked
  /\ batch' = [batch EXCEPT ![x] = [i \in DOMAIN batch[x] \ {id} |-> batch[x][i]]]
  /\ UNCHANGED <<nextId, now, delivered, redrives, running, starts, reaperTimer, reaperRan, aux>>

\* One tick of the heartbeat timer of an event: renewLease is called and its
\* return value is dropped; the timer stays.
Heartbeat(x, id) ==
  /\ id \in InFlight(x)
  /\ batch[x][id].hb
  /\ LET res == renewLease(outbox, id, lockTokenOf(x), LeaseSeconds) IN
       /\ outbox' = res.rows
       /\ batch' = [batch EXCEPT ![x][id].renewed = IF res.rowCount > 0 THEN "true" ELSE "false"]
  /\ <<outbox', batch'>> # <<outbox, batch>>
  /\ UNCHANGED <<nextId, now, delivered, acked, redrives, running, starts, reaperTimer, reaperRan, reported, aux>>

\* One tick of the heartbeat timer whose renewLease call throws: the catch
\* block emits "error", the lease is not renewed, the timer stays.
HeartbeatError(x, id) ==
  /\ id \in InFlight(x)
  /\ batch[x][id].hb
  /\ batch[x][id].renewed # "error"
  /\ batch' = [batch EXCEPT ![x][id].renewed = "error"]
  /\ UNCHANGED <<outbox, nextId, now, delivered, acked, redrives, running, starts, reaperTimer, reaperRan, reported, aux>>

\* The reaper interval timer fires: repository.recoverStaleEvents().
Reaper ==
  /\ reaperTimer = ReaperInterval
  /\ outbox' = recoverStaleEvents(outbox).rows
  /\ reaperTimer' = 0
  /\ reaperRan' = TRUE
  /\ UNCHANGED <<nextId, now, batch, delivered, acked, redrives, running, starts, reported, aux>>

\* Operator redrive of one dead-lettered event.
RedriveById(id) ==
  /\ redrives < MaxRedrives
  /\ id \in Ids
  /\ redriveById(outbox, id).rowCount > 0
  /\ outbox' = redriveById(outbox, id).rows
  /\ redrives' = redrives + 1
  /\ UNCHANGED <<nextId, now, batch, delivered, acked, running, starts, reaperTimer, reaperRan, reported, aux>>

\* Operator redrive of the dead-lettered events of one type.
RedriveByEventType(eventType) ==
  /\ redrives < MaxRedrives
  /\ redriveByEventType(outbox, eventType).rowCount > 0
  /\ outbox' = redriveByEventType(outbox, eventType).rows
  /\ redrives' = redrives + 1
  /\ UNCHANGED <<nextId, now, batch, delivered, acked, running, starts, reaperTimer, reaperRan, reported, aux>>

\* Retention: DashboardApi.cleanupEvents / RetentionPolicy -> repository.cleanup().
Cleanup ==
  /\ cleanup(outbox).rowCount > 0
  /\ outbox' = cleanup(outbox).rows
  /\ UNCHANGED <<nextId, now, batch, delivered, acked, redrives, running, starts, reaperTimer, reaperRan, reported, aux>>

\* An active heartbeat timer fires before its lease runs out: time does not
\* pass the deadline of a lease that a working heartbeat can still renew.
HeartbeatDue ==
  \E x \in Execs : \E id \in InFlight(x) :
    /\ batch[x][id].hb
    /\ batch[x][id].renewed # "error"
    /\ renewLease(outbox, id, lockTokenOf(x), LeaseSeconds).rowCount > 0
    /\ outbox[id].locked_until <= now

\* Between the return of claimBatch and the call of publish a worker waits
\* for nothing but a permit: an event that can be started is started before
\* the clock moves.
StartDue ==
  \E x \in Execs : \E id \in DOMAIN batch[x] :
    /\ batch[x][id].pc = "claimed"
    /\ Cardinality(InFlight(x)) < PermitsOf(x)

\* The clock: time passes while workers wait for the publisher, for a permit
\* or for the next poll.  A reaper timer that is due fires first.
Tick ==
  /\ now < MaxTime
  /\ ~HeartbeatDue
  /\ ~StartDue
  /\ reaperTimer < ReaperInterval
  /\ now' = now + 1
  /\ reaperTimer' = IF reaperTimer = NULL THEN NULL ELSE reaperTimer + 1
  /\ UNCHANGED <<outbox, nextId, batch, delivered, acked, redrives, running, starts, reaperRan, reported, aux>>

\* Every step but the shutdown of the OutboxWorker.
Run ==
  \/ \E m \in 0..MaxMaxRetries, t \in EventTypes : Insert(m, t)
  \/ Start
  \/ \E x \in Execs : \E S \in SUBSET Ids : ClaimBatch(x, S)
  \/ \E x \in Execs : \E id \in DOMAIN batch[x] : StartPublish(x, id)
  \/ \E x \in Execs : \E id \in DOMAIN batch[x] : \E ok \in BOOLEAN : FinishPublish(x, id, ok)
  \/ \E x \in Execs : \E id \in DOMAIN batch[x] : Heartbeat(x, id)
  \/ \E x \in Execs : \E id \in DOMAIN batch[x] : HeartbeatError(x, id)
  \/ Reaper
  \/ \E id \in Ids : RedriveById(id)
  \/ \E t \in EventTypes : RedriveByEventType(t)
  \/ Cleanup
  \/ Tick

Next == Run \/ Stop

Spec == Init /\ [][Next]_vars

\* The same system while the OutboxWorker is started and not shut down, with
\* its scheduling: the poll loop keeps claiming, a claimed event is handed to
\* the publisher, the publisher returns, the reaper timer keeps firing and
\* time passes.
LiveSpec ==
  /\ Init
  /\ [][Run]_vars
  /\ WF_vars(Start)
  /\ WF_vars(\E S \in SUBSET Ids : ClaimBatch("W", S))
  /\ \A x \in Execs : WF_vars(\E id \in DOMAIN batch[x] : StartPublish(x, id))
  /\ \A x \in Execs :
       WF_vars(\E id \in DOMAIN batch[x] : \E ok \in BOOLEAN : FinishPublish(x, id, ok))
  /\ WF_vars(Reaper)
  /\ WF_vars(Tick)


\* ---------------------------------------------------------------------
\* The repository statements on their own: each statement is applied to
\* tables of RepoRows rows in any combination of the states the statements
\* leave rows in, and its return value is kept in ret.
\* ---------------------------------------------------------------------
Statuses == {"PENDING", "PROCESSING", "COMPLETED", "FAILED", "DEAD_LETTER"}
LockTokens == {lockTokenOf(x) : x \in Execs}

RepoRowSet ==
  {r \in [status : Statuses, retry_count : 0..1, max_retries : {1},
          event_type : EventTypes, created_at : 0..1,
          processed_at : {NULL, 0},
          locked_until : {NULL} \cup 0..RepoMaxTime,
          lock_token : {NULL} \cup LockTokens,
          last_error : {NoError, PublishError}] :
     /\ (r.status = "PROCESSING") <=> (r.locked_until # NULL)
     /\ (r.status = "PROCESSING") <=> (r.lock_token # NULL)
     /\ (r.status \in {"COMPLETED", "DEAD_LETTER"}) <=> (r.processed_at # NULL)
     /\ (r.last_error = PublishError) <=> (r.retry_count > 0 \/ r.status \in {"FAILED", "DEAD_LETTER"})
     /\ r.status = "FAILED" => r.retry_count > 0}

RepoInit ==
  /\ outbox \in [1..RepoRows -> RepoRowSet]
  /\ nextId = RepoRows + 1
  /\ now \in 0..RepoMaxTime
  /\ \A i \in 1..RepoRows : outbox[i].created_at <= now
  /\ batch = [x \in Execs |-> <<>>]
  /\ delivered = <<>>
  /\ acked = <<>>
  /\ redrives = 0
  /\ running = FALSE
  /\ starts = 0
  /\ reaperTimer = NULL
  /\ reaperRan = FALSE
  /\ reported = [x \in Execs |-> NoResult]
  /\ ret = NoCall
  /\ dateNow = 1
  /\ tokens = <<>>
  /\ SvcInit

\* repository.recoverStaleEvents()
RecoverStaleEvents ==
  /\ outbox' = recoverStaleEvents(outbox).rows
  /\ ret' = [op |-> "recoverStaleEvents", id |-> NULL, token |-> NULL,
             rowCount |-> recoverStaleEvents(outbox).rowCount]
  /\ UNCHANGED <<nextId, now, batch, delivered, acked, redrives,
                 running, starts, reaperTimer, reaperRan, reported, dateNow, tokens, svc>>

\* repository.renewLease(id, lockToken, leaseSeconds); the boolean returned is
\* rowCount > 0.
RenewLease(id, lockToken) ==
  /\ outbox' = renewLease(outbox, id, lockToken, LeaseSeconds).rows
  /\ ret' = [op |-> "renewLease", id |-> id, token |-> lockToken,
             rowCount |-> renewLease(outbox, id, lockToken, LeaseSeconds).rowCount]
  /\ UNCHANGED <<nextId, now, batch, delivered, acked, redrives,
                 running, starts, reaperTimer, reaperRan, reported, dateNow, tokens, svc>>

\* What a statement applied on its own leaves alone.
repoFrame == <<nextId, now, batch, delivered, acked, redrives,
               running, starts, reaperTimer, reaperRan, reported, dateNow, tokens, svc>>

\* repository.claimBatch({batchSize, leaseSeconds, lockToken}); S is the set
\* of rows the sub-select takes, the rows of RETURNING *.
RepoClaimBatch(batchSize, lockToken, S) ==
  /\ ret = NoCall
  /\ S \in ClaimChoices(outbox, batchSize)
  /\ outbox' = claimBatch(outbox, S, LeaseSeconds, lockToken)
  /\ ret' = [op |-> "claimBatch", limit |-> batchSize, token |-> lockToken,
             ids |-> S, rowCount |-> Cardinality(S)]
  /\ UNCHANGED repoFrame

\* repository.redriveById(eventId); the id may match no row.
RepoRedriveById(id) ==
  /\ ret = NoCall
  /\ outbox' = redriveById(outbox, id).rows
  /\ ret' = [op |-> "redriveById", id |-> id,
             rowCount |-> redriveById(outbox, id).rowCount,
             result |-> redriveById(outbox, id).rowCount > 0]
  /\ UNCHANGED repoFrame

\* repository.redriveByEventType(eventType).
RepoRedriveByEventType(eventType) ==
  /\ ret = NoCall
  /\ outbox' = redriveByEventType(outbox, eventType).rows
  /\ ret' = [op |-> "redriveByEventType", type |-> eventType,
             rowCount |-> redriveByEventType(outbox, eventType).rowCount]
  /\ UNCHANGED repoFrame

RepoNext ==
  \/ RecoverStaleEvents
  \/ \E id \in 1..(RepoRows + 1), t \in LockTokens : RenewLease(id, t)
  \/ \E n \in 1..RepoRows, t \in LockTokens, S \in SUBSET (1..RepoRows) : RepoClaimBatch(n, t, S)
  \/ \E id \in 1..(RepoRows + 1) : RepoRedriveById(id)
  \/ \E t \in EventTypes : RepoRedriveByEventType(t)

RepoSpec == RepoInit /\ [][RepoNext]_vars


\* ---------------------------------------------------------------------
\* Construction of worker instances in one process: each constructor draws
\* the instance's lock token.
\* ---------------------------------------------------------------------
\* OutboxWorker constructor: BigInt(Date.now()) * 1000n + BigInt(random).
workerId(ms, random) == ms * 1000 + random

\* ProcessOutboxUseCase constructor: BigInt(Date.now()).
newLockToken(ms) == ms

NewOutboxWorker(random) ==
  /\ Len(tokens) < MaxInstances
  /\ tokens' = Append(tokens, [kind |-> "OutboxWorker", token |-> workerId(dateNow, random)])
  /\ UNCHANGED <<relay, ret, dateNow, svc>>

\* new PollingRelay(...) / new NotifyRelay(...): each constructs its own
\* ProcessOutboxUseCase.
NewProcessOutboxUseCase ==
  /\ Len(tokens) < MaxInstances
  /\ tokens' = Append(tokens, [kind |-> "ProcessOutboxUseCase", token |-> newLockToken(dateNow)])
  /\ UNCHANGED <<relay, ret, dateNow, svc>>

\* The millisecond clock of the process.
ClockMs ==
  /\ dateNow < MaxMs
  /\ dateNow' = dateNow + 1
  /\ UNCHANGED <<relay, ret, tokens, svc>>

TokenNext ==
  \/ \E r \in 0..MaxRandom : NewOutboxWorker(r)
  \/ NewProcessOutboxUseCase
  \/ ClockMs

TokenSpec == Init /\ [][TokenNext]_vars

\* ---------------------------------------------------------------------
\* Cursor pagination: repository.findRecent and DashboardApi.getRecentEvents
\* ---------------------------------------------------------------------
\* A cursor is absent (NULL) or the decimal string of an id, 0 included.
Cursors == {NULL} \cup 0..MaxPageId

\* ORDER BY id ASC over a set of ids.
RECURSIVE orderByIdAsc(_)
orderByIdAsc(S) ==
  IF S = {} THEN <<>>
  ELSE LET m == CHOOSE i \in S : \A j \in S : i <= j
       IN <<m>> \o orderByIdAsc(S \ {m})

\* Array.prototype.reverse.
reverse(seq) == [k \in 1..Len(seq) |-> seq[Len(seq) + 1 - k]]

\* LIMIT n.
limitRows(seq, n) == SubSeq(seq, 1, IF Len(seq) < n THEN Len(seq) ELSE n)

\* if (options.after) on a bigint: undefined and 0n are both falsy.
bigintGiven(cursor) == cursor # NULL /\ cursor # 0

\* findRecent({limit, before, after}): the ids of the rows returned, in order.
findRecent(tbl, limit, before, after) ==
  LET W == {i \in DOMAIN tbl : /\ (bigintGiven(after) => i > after)
                                /\ (bigintGiven(before) => i < before)}
  IN IF bigintGiven(after)
       THEN reverse(limitRows(orderByIdAsc(W), limit))
       ELSE limitRows(reverse(orderByIdAsc(W)), limit)

\* getRecentEvents({limit, before, after}); before and after arrive as
\* strings, so "0" counts as given in `if (options.after)`.
getRecentEvents(tbl, limit, before, after) ==
  LET events == findRecent(tbl, limit + 1, before, after)
      hasMore == Len(events) > limit
      items == IF hasMore
                 THEN IF after # NULL THEN Tail(events) ELSE SubSeq(events, 1, limit)
                 ELSE events
  IN [events |-> items, hasMore |-> hasMore]

\* No worker constructed or started, no call made yet.
QuietInit ==
  /\ batch = [x \in Execs |-> <<>>]
  /\ delivered = <<>>
  /\ acked = <<>>
  /\ redrives = 0
  /\ running = FALSE
  /\ starts = 0
  /\ reaperTimer = NULL
  /\ reaperRan = FALSE
  /\ reported = [x \in Execs |-> NoResult]
  /\ ret = NoCall
  /\ dateNow = 1
  /\ tokens = <<>>
  /\ SvcInit

\* A table whose ids are any subset of 1..MaxPageId (deleted rows leave gaps).
PageInit ==
  /\ now = 0
  /\ outbox \in {[i \in S |-> insertRow(1, "OrderCreated")] : S \in SUBSET (1..MaxPageId)}
  /\ nextId = MaxPageId + 1
  /\ QuietInit

\* One request for a page.
GetRecentEvents(limit, before, after) ==
  /\ ret' = [op |-> "getRecentEvents", limit |-> limit, before |-> before, after |-> after,
             events |-> getRecentEvents(outbox, limit, before, after).events,
             hasMore |-> getRecentEvents(outbox, limit, before, after).hasMore]
  /\ UNCHANGED <<outbox, repoFrame>>

\* options.eventTypes of an EventStream that was given no filter.
NoFilter == "undefined"

\* EventStream.matchesFilters with the eventTypes option.
matchesFilters(row, eventType) == eventType = NoFilter \/ row.event_type = eventType

\* The events of one page the iterator yields, in page order.
RECURSIVE yieldMatching(_, _, _)
yieldMatching(tbl, page, eventType) ==
  IF page = <<>> THEN <<>>
  ELSE (IF matchesFilters(tbl[Head(page)], eventType) THEN <<Head(page)>> ELSE <<>>)
         \o yieldMatching(tbl, Tail(page), eventType)

\* for await (const event of stream): the iterator is created, lastId is
\* undefined and nothing has been yielded.
StreamOpen(batchSize, eventType) ==
  /\ ret' = [op |-> "EventStream", batchSize |-> batchSize, eventType |-> eventType,
             lastId |-> NULL, yielded |-> <<>>, hasMore |-> TRUE]
  /\ UNCHANGED <<outbox, repoFrame>>

\* One round of the iterator's while loop: findRecent({limit: batchSize,
\* after: lastId}), the matching events yielded, lastId set to the id of the
\* last event of the page, the loop left on an empty or a short page.
StreamNextPage ==
  /\ ret.op = "EventStream"
  /\ ret.hasMore
  /\ LET events == findRecent(outbox, ret.batchSize, NULL, ret.lastId) IN
       ret' = IF events = <<>>
                THEN [ret EXCEPT !.hasMore = FALSE]
                ELSE [ret EXCEPT !.yielded = @ \o yieldMatching(outbox, events, ret.eventType),
                                 !.lastId = events[Len(events)],
                                 !.hasMore = ~(Len(events) < ret.batchSize)]
  /\ UNCHANGED <<outbox, repoFrame>>

PageNext ==
  \/ \E limit \in 1..MaxLimit, before \in Cursors, after \in Cursors :
       GetRecentEvents(limit, before, after)
  \/ \E batchSize \in 1..MaxLimit, eventType \in {NoFilter} \cup EventTypes :
       StreamOpen(batchSize, eventType)
  \/ StreamNextPage

PageSpec == PageInit /\ [][PageNext]_vars

\* ---------------------------------------------------------------------
\* Consumer side: PostgresIdempotencyStore and IdempotentExecutor
\* ---------------------------------------------------------------------
TrackingIds == {"T6", "T7"}
ConsumerIds == {"svc", "billing"}

\* The unique constraint (tracking_id, consumer_id) of the inbox table.
inboxHas(tbl, trackingId, consumerId) ==
  \E r \in tbl : r.tracking_id = trackingId /\ r.consumer_id = consumerId

\* Faulty variant of markProcessed: true is returned whether or not a row was inserted.
markProcessed_alwaysTrue(tbl, trackingId, consumerId) ==
  IF inboxHas(tbl, trackingId, consumerId)
    THEN [rows |-> tbl, result |-> TRUE]
    ELSE [rows |-> tbl \cup {[tracking_id |-> trackingId, consumer_id |-> consumerId,
                              processed_at |-> now]},
          result |-> TRUE]

\* INSERT INTO inbox ... ON CONFLICT (tracking_id, consumer_id) DO NOTHING;
\* returns rowCount > 0.
markProcessed(tbl, trackingId, consumerId) ==
  IF inboxHas(tbl, trackingId, consumerId)
    THEN [rows |-> tbl, result |-> FALSE]
    ELSE [rows |-> tbl \cup {[tracking_id |-> trackingId, consumer_id |-> consumerId,
                              processed_at |-> now]},
          result |-> TRUE]

\* SELECT ... FROM inbox WHERE tracking_id = $1: the rows found (null if none).
getRecord(tbl, trackingId) == {r \in tbl : r.tracking_id = trackingId}

\* DELETE FROM inbox WHERE processed_at < NOW() - olderThanDays: the rows kept.
cleanupInbox(tbl, olderThanDays) ==
  {r \in tbl : ~(r.processed_at < now - olderThanDays)}

\* Faulty variant of afterMark: the function is run whatever markProcessed returned.
afterMark_ignoresResult(marked) == "fn"

\* withIdempotency after markProcessed: if (!marked) skip, else run fn.
afterMark(marked) == IF marked THEN "fn" ELSE "skipped"

\* The wrapped function of a withIdempotency call has been invoked.
executed(call) == call.pc \in {"fn", "returned", "threw"}

idemFrame == <<outbox, nextId, batch, delivered, acked, redrives,
               running, starts, reaperTimer, reaperRan, reported, ret, dateNow, tokens, loopV>>

\* A consumer calls store.markProcessed(trackingId, consumerId) itself.
MarkProcessed(trackingId, consumerId) ==
  /\ Len(calls) < MaxCalls
  /\ inbox' = markProcessed(inbox, trackingId, consumerId).rows
  /\ calls' = Append(calls, [op |-> "markProcessed", t |-> trackingId, c |-> consumerId,
                             pc |-> "returned",
                             marked |-> IF markProcessed(inbox, trackingId, consumerId).result
                                          THEN "true" ELSE "false"])
  /\ UNCHANGED <<now, idemFrame>>

\* executor.withIdempotency(trackingId, fn) is called on the executor of consumerId.
WithIdempotency(trackingId, consumerId) ==
  /\ Len(calls) < MaxCalls
  /\ calls' = Append(calls, [op |-> "withIdempotency", t |-> trackingId, c |-> consumerId,
                             pc |-> "getRecord", marked |-> "none"])
  /\ UNCHANGED <<now, inbox, idemFrame>>

\* withIdempotency: existingRecord = await store.getRecord(trackingId).
GetRecord(k) ==
  /\ k \in DOMAIN calls
  /\ calls[k].pc = "getRecord"
  /\ calls' = [calls EXCEPT ![k].pc = IF getRecord(inbox, calls[k].t) # {}
                                        THEN "skipped" ELSE "markProcessed"]
  /\ UNCHANGED <<now, inbox, idemFrame>>

\* withIdempotency: marked = await store.markProcessed(trackingId, consumerId).
MarkStep(k) ==
  /\ k \in DOMAIN calls
  /\ calls[k].pc = "markProcessed"
  /\ LET m == markProcessed(inbox, calls[k].t, calls[k].c) IN
       /\ inbox' = m.rows
       /\ calls' = [calls EXCEPT ![k].pc = afterMark(m.result),
                                 ![k].marked = IF m.result THEN "true" ELSE "false"]
  /\ UNCHANGED <<now, idemFrame>>

\* withIdempotency: await fn() resolves.
FnReturns(k) ==
  /\ k \in DOMAIN calls
  /\ calls[k].pc = "fn"
  /\ calls' = [calls EXCEPT ![k].pc = "returned"]
  /\ UNCHANGED <<now, inbox, idemFrame>>

\* withIdempotency: await fn() rejects; the error is logged and rethrown.
FnThrows(k) ==
  /\ k \in DOMAIN calls
  /\ calls[k].pc = "fn"
  /\ calls' = [calls EXCEPT ![k].pc = "threw"]
  /\ UNCHANGED <<now, inbox, idemFrame>>

\* store.cleanup(olderThanDays), when it deletes something.
CleanupInbox(olderThanDays) ==
  /\ cleanupInbox(inbox, olderThanDays) # inbox
  /\ inbox' = cleanupInbox(inbox, olderThanDays)
  /\ UNCHANGED <<now, calls, idemFrame>>

\* NOW() advances.
IdemTick ==
  /\ now < MaxTime
  /\ now' = now + 1
  /\ UNCHANGED <<inbox, calls, idemFrame>>

IdemNext ==
  \/ \E t \in TrackingIds, c \in ConsumerIds : MarkProcessed(t, c)
  \/ \E t \in TrackingIds, c \in ConsumerIds : WithIdempotency(t, c)
  \/ \E k \in 1..MaxCalls : GetRecord(k)
  \/ \E k \in 1..MaxCalls : MarkStep(k)
  \/ \E k \in 1..MaxCalls : FnReturns(k)
  \/ \E k \in 1..MaxCalls : FnThrows(k)
  \/ \E d \in 1..MaxRetentionDays : CleanupInbox(d)
  \/ IdemTick

IdemSpec == Init /\ [][IdemNext]_vars

\* ---------------------------------------------------------------------
\* Ingress and monitoring: BacklogLimiter, MetricsCollector, HealthChecker
\* ---------------------------------------------------------------------
\* SELECT COUNT(*) FROM outbox WHERE status = 'PENDING'
getPendingCount(tbl) == Cardinality({i \in DOMAIN tbl : tbl[i].status = "PENDING"})

\* SELECT COUNT(*) FROM outbox WHERE status = 'DEAD_LETTER'
getDeadLetterCount(tbl) == Cardinality({i \in DOMAIN tbl : tbl[i].status = "DEAD_LETTER"})

\* NOW() - MIN(created_at) over the PENDING rows; null ?? 0 when there is none.
getOldestPendingAgeSeconds(tbl) ==
  LET P == {i \in DOMAIN tbl : tbl[i].status = "PENDING"} IN
  IF P = {} THEN 0
  ELSE now - tbl[CHOOSE i \in P : \A j \in P : tbl[i].created_at <= tbl[j].created_at].created_at

\* MetricsCollector.collect(): the gauges the health check reads.
collect(tbl) ==
  [pendingTotal |-> getPendingCount(tbl),
   deadLetterTotal |-> getDeadLetterCount(tbl),
   oldestPendingAgeSeconds |-> getOldestPendingAgeSeconds(tbl)]

BacklogLimitActions == {"throw", "warn", "drop"}

\* Faulty variant of checkLimit: the limit counts as reached only above maxBacklogSize.
checkLimit_strict(currentSize, maxBacklogSize, onLimitExceeded) ==
  IF currentSize > maxBacklogSize
    THEN CASE onLimitExceeded = "throw" ->
                [outcome |-> "BacklogLimitExceededError", log |-> "none"]
           [] onLimitExceeded = "warn" -> [outcome |-> "false", log |-> "WARNING"]
           [] onLimitExceeded = "drop" -> [outcome |-> "false", log |-> "DROPPING"]
    ELSE [outcome |-> "true", log |-> "none"]

\* BacklogLimiter.checkLimit(): what the promise settles to, and the console.warn made.
checkLimit(currentSize, maxBacklogSize, onLimitExceeded) ==
  IF currentSize >= maxBacklogSize
    THEN CASE onLimitExceeded = "throw" ->
                [outcome |-> "BacklogLimitExceededError", log |-> "none"]
           [] onLimitExceeded = "warn" -> [outcome |-> "false", log |-> "WARNING"]
           [] onLimitExceeded = "drop" -> [outcome |-> "false", log |-> "DROPPING"]
    ELSE [outcome |-> "true", log |-> "none"]

HealthConfigs ==
  {cfg \in [maxPendingForHealthy : 0..MaxThreshold, maxPendingForDegraded : 0..MaxThreshold,
            maxLagSecondsHealthy : 0..MaxThreshold, maxLagSecondsDegraded : 0..MaxThreshold,
            maxDeadLetterForHealthy : 0..MaxThreshold] :
     /\ cfg.maxPendingForHealthy <= cfg.maxPendingForDegraded
     /\ cfg.maxLagSecondsHealthy <= cfg.maxLagSecondsDegraded}

\* HealthChecker.checkBacklog: the count is judged first, the lag only when
\* the count is healthy.
checkBacklog(metrics, config) ==
  IF metrics.pendingTotal > config.maxPendingForDegraded THEN "unhealthy"
  ELSE IF metrics.pendingTotal > config.maxPendingForHealthy THEN "degraded"
  ELSE IF metrics.oldestPendingAgeSeconds > config.maxLagSecondsDegraded THEN "unhealthy"
  ELSE IF metrics.oldestPendingAgeSeconds > config.maxLagSecondsHealthy THEN "degraded"
  ELSE "healthy"

\* HealthChecker.checkDeadLetter
checkDeadLetter(metrics, config) ==
  IF metrics.deadLetterTotal > config.maxDeadLetterForHealthy * 2 THEN "unhealthy"
  ELSE IF metrics.deadLetterTotal > config.maxDeadLetterForHealthy THEN "degraded"
  ELSE "healthy"

\* HealthChecker.check: the overall status over [database, backlog, deadLetter].
check(metrics, config) ==
  LET statuses == {"healthy", checkBacklog(metrics, config), checkDeadLetter(metrics, config)}
  IN IF "unhealthy" \in statuses THEN "unhealthy"
     ELSE IF "degraded" \in statuses THEN "degraded"
     ELSE "healthy"

\* Tables of rows that are pending, completed or dead-lettered.
MonitorInit ==
  /\ now \in 0..RepoMaxTime
  /\ outbox \in [1..RepoRows ->
                   {r \in RepoRowSet :
                      /\ r.status \in {"PENDING", "COMPLETED", "DEAD_LETTER"}
                      /\ r.event_type = "OrderCreated"
                      /\ r.retry_count = IF r.status = "DEAD_LETTER" THEN 1 ELSE 0}]
  /\ \A i \in 1..RepoRows : outbox[i].created_at <= now
  /\ nextId = RepoRows + 1
  /\ QuietInit

\* A producer consults limiter.checkLimit() before inserting.
CheckLimit(maxBacklogSize, onLimitExceeded) ==
  /\ ret = NoCall
  /\ ret' = [op |-> "checkLimit", currentSize |-> getPendingCount(outbox),
             maxBacklogSize |-> maxBacklogSize, onLimitExceeded |-> onLimitExceeded,
             outcome |-> checkLimit(getPendingCount(outbox), maxBacklogSize, onLimitExceeded).outcome,
             log |-> checkLimit(getPendingCount(outbox), maxBacklogSize, onLimitExceeded).log]
  /\ UNCHANGED <<outbox, repoFrame>>

\* healthChecker.check()
Check(config) ==
  /\ ret = NoCall
  /\ ret' = [op |-> "check", metrics |-> collect(outbox), config |-> config,
             status |-> check(collect(outbox), config)]
  /\ UNCHANGED <<outbox, repoFrame>>

MonitorNext ==
  \/ \E m \in 1..MaxBacklogSize, a \in BacklogLimitActions : CheckLimit(m, a)
  \/ \E cfg \in HealthConfigs : Check(cfg)

MonitorSpec == MonitorInit /\ [][MonitorNext]_vars

\* ---------------------------------------------------------------------
\* OutboxWorker: poll loop, processBatch and its Semaphore
\* ---------------------------------------------------------------------
\* new Semaphore(permits)
newSemaphore(permits) == [permits |-> permits, waiting |-> <<>>]

\* Semaphore.acquire() for the event id: a permit is taken, or the caller is
\* queued in `waiting`.
acquire(sem, id) ==
  IF sem.permits > 0
    THEN [sem |-> [sem EXCEPT !.permits = @ - 1], granted |-> TRUE]
    ELSE [sem |-> [sem EXCEPT !.waiting = Append(@, id)], granted |-> FALSE]

\* Semaphore.release(): the first waiter is woken, or the permit is returned.
release(sem) ==
  IF sem.waiting # <<>>
    THEN [sem |-> [sem EXCEPT !.waiting = Tail(@)], next |-> Head(sem.waiting)]
    ELSE [sem |-> [sem EXCEPT !.permits = @ + 1], next |-> NULL]

\* events.map(async (event) => { await semaphore.acquire(); ... }): every
\* event calls acquire() in array order before any of them goes on.
RECURSIVE acquireAll(_, _)
acquireAll(sem, ids) ==
  IF ids = <<>> THEN [sem |-> sem, granted |-> {}]
  ELSE LET a == acquire(sem, Head(ids))
           r == acquireAll(a.sem, Tail(ids))
       IN [sem |-> r.sem,
           granted |-> (IF a.granted THEN {Head(ids)} ELSE {}) \cup r.granted]

\* The two polling relays: OutboxWorker and PollingRelay.
RelayKinds == {"OutboxWorker", "PollingRelay"}

\* The fencing token of the instance: this.lockToken of the worker, or the
\* lockToken of the ProcessOutboxUseCase the PollingRelay runs.
tokenOfKind(kind) == IF kind = "OutboxWorker" THEN lockTokenOf("W") ELSE lockTokenOf("N1")

\* Events in flight at once within one batch: the worker's Semaphore(concurrency);
\* ProcessOutboxUseCase.execute awaits processEvent one event after another.
permitsOfKind(kind) == IF kind = "OutboxWorker" THEN PollConcurrency ELSE 1

\* OutboxWorker.poll() after processBatch returned `processed`: setImmediate on
\* a full batch, else setTimeout if running, else nothing.
workerAfterBatch(processed, isRunning) ==
  IF processed > 0 /\ processed >= PollBatchSize THEN "immediate"
  ELSE IF isRunning THEN "sleeping"
  ELSE "ended"

\* PollingRelay.poll() after processUseCase.execute() returned: setTimeout if
\* running, else nothing; the result of execute() is not looked at.
relayAfterBatch(isRunning) == IF isRunning THEN "sleeping" ELSE "ended"

\* NotifyRelay.process() after processUseCase.execute() returned `processed`:
\* setImmediate on a full batch, else nothing.
notifyAfterBatch(processed) ==
  IF processed > 0 /\ processed >= PollBatchSize THEN "immediate" ELSE "ended"

\* poll() or process() of the instance after its batch.
afterBatch(kind, processed, isRunning) ==
  IF kind = "OutboxWorker" THEN workerAfterBatch(processed, isRunning)
  ELSE IF kind = "PollingRelay" THEN relayAfterBatch(isRunning)
  ELSE notifyAfterBatch(processed)

\* What processEvent meets after publisher.publish was called: a success
\* result and a markCompleted that returns, a failure result or an exception
\* of the publisher, or a success result and a markCompleted that rejects with
\* a database error.
Settlements == {"success", "failure", "markCompletedThrows"}

\* The message of the error markCompleted rejects with.
DatabaseError == "connection terminated"

\* Events of all poll loops for which publisher.publish has been called and
\* has not settled.
Outstanding ==
  {<<l, id>> \in (DOMAIN polls) \X (1..PollRows) :
     id \in DOMAIN polls[l].events /\ polls[l].events[id].st = "publishing"}

pollFrame == <<nextId, now, batch, delivered, acked, redrives, reaperRan, reported,
               ret, dateNow, tokens, idem>>

\* A table of PENDING rows and a constructed, not yet started worker.
PollInit ==
  /\ now = 0
  /\ outbox = [i \in 1..PollRows |-> insertRow(1, "OrderCreated")]
  /\ nextId = PollRows + 1
  /\ QuietInit

\* start() of the instance (an OutboxWorker or a PollingRelay): running, reaper
\* timer, and poll() up to its claimBatch query.
WorkerStart(kind) ==
  /\ ~running
  /\ starts < MaxWorkerStarts
  /\ \A l \in DOMAIN polls : polls[l].kind = kind
  /\ running' = TRUE
  /\ starts' = starts + 1
  /\ reaperTimer' = 0
  /\ polls' = Append(polls, [kind |-> kind, pc |-> "claimBatch", sem |-> newSemaphore(0),
                                 events |-> <<>>])
  /\ UNCHANGED <<outbox, pollTimer, pollFrame>>

\* worker.stop(): clears the poll timer held in this.pollTimer, the reaper
\* timer and every heartbeat timer, and returns.
WorkerStop ==
  /\ running
  /\ running' = FALSE
  /\ reaperTimer' = NULL
  /\ pollTimer' = NULL
  /\ polls' = [l \in DOMAIN polls |->
                 [polls[l] EXCEPT
                    !.pc = IF l = pollTimer /\ @ = "sleeping" THEN "ended" ELSE @,
                    !.events = [id \in DOMAIN @ |-> [@[id] EXCEPT !.hb = FALSE]]]]
  /\ UNCHANGED <<outbox, starts, pollFrame>>

\* processBatch of loop l: claimBatch returns the rows S; each event calls
\* acquire(), and those granted a permit go on to processEvent (heartbeat
\* started, publisher.publish called).
PollClaim(l, S) ==
  /\ l \in DOMAIN polls
  /\ polls[l].pc = "claimBatch"
  /\ S \in ClaimChoices(outbox, PollBatchSize)
  /\ outbox' = claimBatch(outbox, S, LeaseSeconds, tokenOfKind(polls[l].kind))
  /\ IF S = {}
       THEN /\ polls' = [polls EXCEPT ![l].pc = afterBatch(polls[l].kind, 0, running),
                                      ![l].sem = newSemaphore(0),
                                      ![l].events = <<>>]
            /\ pollTimer' = IF afterBatch(polls[l].kind, 0, running) = "sleeping" THEN l ELSE pollTimer
       ELSE /\ LET a == acquireAll(newSemaphore(permitsOfKind(polls[l].kind)), orderByIdAsc(S)) IN
                 polls' = [polls EXCEPT
                             ![l].pc = "processBatch",
                             ![l].sem = a.sem,
                             ![l].events =
                               [i \in S |->
                                  [st |-> IF i \in a.granted THEN "publishing" ELSE "waiting",
                                   published |-> "none",
                                   hb |-> i \in a.granted /\ polls[l].kind = "OutboxWorker"]
                                  @@ mapRowToEvent(outbox'[i])]]
            /\ pollTimer' = pollTimer
  /\ UNCHANGED <<running, starts, reaperTimer, pollFrame>>

\* publisher.publish(event) of loop l settles: the event is finalized, its
\* heartbeat stopped and its permit released; a woken waiter goes on to
\* processEvent; when the last event is done processBatch returns and poll()
\* schedules the next round. A markCompleted that rejects is caught by the
\* catch block around publish and markCompleted, which calls handleFailure.
PublishSettles(l, id, settlement) ==
  /\ l \in DOMAIN polls
  /\ id \in DOMAIN polls[l].events
  /\ polls[l].events[id].st = "publishing"
  /\ outbox' = IF settlement = "success"
                 THEN markCompleted(outbox, id, tokenOfKind(polls[l].kind)).rows
                 ELSE handleFailure(outbox, id, polls[l].events[id], tokenOfKind(polls[l].kind),
                                    IF settlement = "failure" THEN PublishError
                                    ELSE DatabaseError).rows
  /\ LET rel == release(polls[l].sem)
         evs == [i \in DOMAIN polls[l].events |->
                   IF i = id
                     THEN [polls[l].events[i] EXCEPT
                             !.st = "done", !.hb = FALSE,
                             !.published = IF settlement = "failure" THEN "failure" ELSE "success"]
                   ELSE IF i = rel.next
                     THEN [polls[l].events[i] EXCEPT !.st = "publishing",
                                                     !.hb = polls[l].kind = "OutboxWorker"]
                   ELSE polls[l].events[i]]
         finished == \A i \in DOMAIN evs : evs[i].st = "done"
         pc == IF finished THEN afterBatch(polls[l].kind, Cardinality(DOMAIN evs), running)
               ELSE "processBatch"
     IN /\ polls' = [polls EXCEPT ![l].sem = rel.sem, ![l].events = evs, ![l].pc = pc]
        /\ pollTimer' = IF pc = "sleeping" THEN l ELSE pollTimer
  /\ UNCHANGED <<running, starts, reaperTimer, pollFrame>>

\* The setImmediate or setTimeout callback of loop l runs poll(): it returns
\* if the worker is not running, else it issues the next claimBatch.
PollAgain(l) ==
  /\ l \in DOMAIN polls
  /\ polls[l].pc \in {"immediate", "sleeping"}
  /\ polls' = [polls EXCEPT ![l].pc = IF running THEN "claimBatch" ELSE "ended"]
  /\ UNCHANGED <<outbox, running, starts, reaperTimer, pollTimer, pollFrame>>

PollNext ==
  \/ \E kind \in RelayKinds : WorkerStart(kind)
  \/ WorkerStop
  \/ \E l \in 1..MaxWorkerStarts, S \in SUBSET (1..PollRows) : PollClaim(l, S)
  \/ \E l \in 1..MaxWorkerStarts, id \in 1..PollRows, settlement \in Settlements :
       PublishSettles(l, id, settlement)
  \/ \E l \in 1..MaxWorkerStarts : PollAgain(l)

PollSpec == PollInit /\ [][PollNext]_vars

\* ---------------------------------------------------------------------
\* Producers behind a BacklogLimiter in 'throw' mode
\* ---------------------------------------------------------------------
producerFrame == <<now, batch, delivered, acked, redrives, running, starts, reaperTimer,
                   reaperRan, reported, ret, dateNow, tokens, inbox, loopV>>

\* An empty table and no producer at work.
ProducerInit ==
  /\ now = 0
  /\ outbox = <<>>
  /\ nextId = 1
  /\ QuietInit

\* A producer is about to call limiter.checkLimit(); all producers share the
\* limiter configuration.
Produce(maxBacklogSize) ==
  /\ Len(calls) < MaxProducers
  /\ \A k \in DOMAIN calls : calls[k].maxBacklogSize = maxBacklogSize
  /\ calls' = Append(calls, [op |-> "produce", maxBacklogSize |-> maxBacklogSize,
                             pc |-> "checkLimit"])
  /\ UNCHANGED <<outbox, nextId, producerFrame>>

\* await limiter.checkLimit() of producer k: it throws, or the producer goes
\* on to its insert.
ProducerCheckLimit(k) ==
  /\ k \in DOMAIN calls
  /\ calls[k].pc = "checkLimit"
  /\ calls' = [calls EXCEPT ![k].pc =
                 IF checkLimit(getPendingCount(outbox), calls[k].maxBacklogSize, "throw").outcome
                      = "BacklogLimitExceededError"
                   THEN "rejected" ELSE "insert"]
  /\ UNCHANGED <<outbox, nextId, producerFrame>>

\* repository.insert(event) of producer k.
ProducerInsert(k) ==
  /\ k \in DOMAIN calls
  /\ calls[k].pc = "insert"
  /\ outbox' = (nextId :> insertRow(1, "OrderCreated")) @@ outbox
  /\ nextId' = nextId + 1
  /\ calls' = [calls EXCEPT ![k].pc = "done"]
  /\ UNCHANGED producerFrame

\* A relay claims the rows S, which leave PENDING.
RelayClaims(S) ==
  /\ S \in ClaimChoices(outbox, BatchSize)
  /\ S # {}
  /\ outbox' = claimBatch(outbox, S, LeaseSeconds, lockTokenOf("W"))
  /\ UNCHANGED <<nextId, calls, producerFrame>>

ProducerNext ==
  \/ \E m \in 1..MaxBacklogSize : Produce(m)
  \/ \E k \in 1..MaxProducers : ProducerCheckLimit(k)
  \/ \E k \in 1..MaxProducers : ProducerInsert(k)
  \/ \E S \in SUBSET (1..MaxProducers) : RelayClaims(S)

ProducerSpec == ProducerInit /\ [][ProducerNext]_vars

\* ---------------------------------------------------------------------
\* NotifyRelay: LISTEN, debounce and process()
\* ---------------------------------------------------------------------
notifyFrame == <<now, batch, delivered, acked, redrives, reaperTimer, reaperRan, reported,
                 ret, dateNow, tokens, idem>>

\* An empty table and a constructed NotifyRelay that has not been started.
NotifyInit ==
  /\ now = 0
  /\ outbox = <<>>
  /\ nextId = 1
  /\ QuietInit

\* relay.start(): isRunning, LISTEN, and the initial process() up to its
\* claimBatch query. No reaper and no poll timer are created.
NotifyStart ==
  /\ ~running
  /\ starts = 0
  /\ running' = TRUE
  /\ starts' = 1
  /\ polls' = Append(polls, [kind |-> "NotifyRelay", pc |-> "claimBatch",
                             sem |-> newSemaphore(0), events |-> <<>>])
  /\ UNCHANGED <<outbox, nextId, pollTimer, notifyFrame>>

\* A producer inserts an event; the AFTER INSERT trigger notifies the channel,
\* and a listening relay runs onNotification(): the debounce timer is cleared
\* and armed again.
NotifyInsert(maxRetries) ==
  /\ nextId <= MaxNotifyEvents
  /\ outbox' = (nextId :> insertRow(maxRetries, "OrderCreated")) @@ outbox
  /\ nextId' = nextId + 1
  /\ pollTimer' = IF running THEN 0 ELSE pollTimer
  /\ UNCHANGED <<running, starts, polls, notifyFrame>>

\* The debounce timer fires: process() runs up to its claimBatch query.
DebounceFires ==
  /\ pollTimer = 0
  /\ pollTimer' = NULL
  /\ polls' = IF running
                THEN Append(polls, [kind |-> "NotifyRelay", pc |-> "claimBatch",
                                    sem |-> newSemaphore(0), events |-> <<>>])
                ELSE polls
  /\ UNCHANGED <<outbox, nextId, running, starts, notifyFrame>>

\* Every step of a NotifyRelay that is not stopped, its producers and its
\* publisher, which returns success or failure.
NotifyNext ==
  \/ NotifyStart
  \/ \E m \in 0..1 : NotifyInsert(m)
  \/ DebounceFires
  \/ \E l \in 1..(MaxNotifyEvents + 1), S \in SUBSET (1..MaxNotifyEvents) : PollClaim(l, S)
  \/ \E l \in 1..(MaxNotifyEvents + 1), id \in 1..MaxNotifyEvents, settlement \in {"success", "failure"} :
       PublishSettles(l, id, settlement)
  \/ \E l \in 1..(MaxNotifyEvents + 1) : PollAgain(l)

\* The relay with its scheduling: start() is called, an armed debounce timer
\* fires, an issued claimBatch returns, the publisher returns, a setImmediate
\* callback runs.
NotifySpec ==
  /\ NotifyInit
  /\ [][NotifyNext]_vars
  /\ WF_vars(NotifyStart)
  /\ WF_vars(DebounceFires)
  /\ \A l \in 1..(MaxNotifyEvents + 1) : WF_vars(\E S \in SUBSET (1..MaxNotifyEvents) : PollClaim(l, S))
  /\ \A l \in 1..(MaxNotifyEvents + 1) :
       WF_vars(\E id \in 1..MaxNotifyEvents, settlement \in {"success", "failure"} :
                 PublishSettles(l, id, settlement))
  /\ \A l \in 1..(MaxNotifyEvents + 1) : WF_vars(PollAgain(l))

\* ---------------------------------------------------------------------
\* Claims
\* ---------------------------------------------------------------------
AllIds == DOMAIN delivered          \* every id ever inserted
Tokens == {lockTokenOf(x) : x \in Execs}
Holders(i) == {x \in Execs : i \in DOMAIN batch[x]}

\* C1: in every reachable state a row is PROCESSING if and only if both its
\* locked_until and its lock_token are non-null.
C1_ProcessingIffLeased ==
  \A i \in Ids :
    (outbox[i].status = "PROCESSING")
      <=> (outbox[i].locked_until # NULL /\ outbox[i].lock_token # NULL)

\* A row that was claimed, reaped after its lease ran out, and claimed again
\* under another token while the first claimer still holds it.
C1_Witness ==
  \E i \in Ids : \E x \in Holders(i) :
    /\ outbox[i].status = "PROCESSING"
    /\ outbox[i].lock_token # lockTokenOf(x)
    /\ outbox[i].locked_until = now + LeaseSeconds

\* C2: markCompleted, markFailed and markDeadLetter change the row and return
\* true only when the presented token is the row's current lock_token; with
\* any other token they return false and leave the whole row unchanged.
C2_FencedFinalize ==
  \A i \in Ids : \A tok \in Tokens :
    \A res \in {markCompleted(outbox, i, tok),
                markFailed(outbox, i, tok, PublishError),
                markDeadLetter(outbox, i, tok, PublishError)} :
      /\ (res.rowCount > 0 \/ res.rows # outbox) => outbox[i].lock_token = tok
      /\ outbox[i].lock_token # tok => (res.rowCount = 0 /\ res.rows = outbox)
      /\ outbox[i].lock_token = tok => (res.rowCount = 1 /\ res.rows[i] # outbox[i])

\* The row was reaped and claimed again under another token; the publish of
\* the first claimer is still outstanding, its finalize is refused and the
\* finalize of the current holder is accepted.
C2_Witness ==
  \E i \in Ids : \E x \in Holders(i) : \E y \in Holders(i) :
    /\ batch[x][i].pc = "publishing"
    /\ outbox[i].lock_token = lockTokenOf(y)
    /\ lockTokenOf(x) # lockTokenOf(y)
    /\ markCompleted(outbox, i, lockTokenOf(x)).rowCount = 0
    /\ markCompleted(outbox, i, lockTokenOf(y)).rowCount = 1

\* C3: at every moment at most one worker holds a given event as claimed and
\* not yet finalized.
C3_OneWorkerPerEvent ==
  \A i \in AllIds : Cardinality({InstanceOf(x) : x \in Holders(i)}) <= 1

\* C4: every inserted event eventually has publish invoked on it at least
\* once, while a relay worker and the reaper keep running (rows are deleted
\* only by retention, which takes COMPLETED and DEAD_LETTER rows).
C4_EventuallyPublished ==
  \A i \in 1..MaxEvents :
    (i \in Ids) ~> (i \in DOMAIN delivered /\ delivered[i] > 0)

\* An event that waited in the table and is now published for the first
\* time, by the OutboxWorker.
C4_Witness ==
  \E i \in Ids :
    /\ i \in InFlight("W")
    /\ delivered[i] = 1
    /\ outbox[i].created_at < now

\* C5: a row is COMPLETED only after a publish call for that event has
\* returned success.
C5_CompletedOnlyAfterSuccess ==
  \A i \in Ids : outbox[i].status = "COMPLETED" => acked[i]

\* An event that failed once, was retried and then completed.
C5_Witness ==
  \E i \in Ids :
    /\ outbox[i].status = "COMPLETED"
    /\ outbox[i].retry_count > 0
    /\ delivered[i] > 1

\* C6: on a failed publish the worker calls markFailed if the event's
\* retry_count + 1 < max_retries and markDeadLetter otherwise.
C6_FailureRule ==
  \A x \in Execs : \A i \in DOMAIN batch[x] :
    (handleFailureCall(batch[x][i]) = "markFailed")
      <=> (batch[x][i].retryCount + 1 < batch[x][i].maxRetries)

\* C7: an event whose every publish failed is in DEAD_LETTER after exactly
\* max_retries publishes (max_retries >= 1, no redrive in between).
C7_DeadLetterAfterMaxRetriesPublishes ==
  \A i \in Ids :
    (/\ outbox[i].status = "DEAD_LETTER"
     /\ outbox[i].max_retries >= 1
     /\ ~acked[i]
     /\ redrives = 0)
      => delivered[i] = outbox[i].max_retries

\* C8: every row that is PENDING, FAILED or PROCESSING has
\* retry_count <= max_retries.
C8_RetryCountBounded ==
  \A i \in Ids :
    outbox[i].status \in {"PENDING", "FAILED", "PROCESSING"}
      => outbox[i].retry_count <= outbox[i].max_retries

\* C9: no row is in DEAD_LETTER with retry_count < max_retries - 1 (a relay
\* never dead-letters an event that early; a dead-lettered row keeps its
\* retry_count until it is redriven).
C9_DeadLetterNotEarly ==
  \A i \in Ids :
    outbox[i].status = "DEAD_LETTER"
      => outbox[i].retry_count >= outbox[i].max_retries - 1

\* C10 as stated: over the lifetime of a row retry_count never decreases and
\* created_at never changes.
C10_RetryCountNeverDecreases ==
  [][\A i \in DOMAIN outbox \cap DOMAIN outbox' :
       /\ outbox'[i].retry_count >= outbox[i].retry_count
       /\ outbox'[i].created_at = outbox[i].created_at]_vars

\* C10 as amended: created_at never changes, and retry_count never decreases
\* except when a redrive takes the row from DEAD_LETTER to PENDING and resets
\* it to 0.
C10_RetryCountDecreasesOnlyOnRedrive ==
  [][\A i \in DOMAIN outbox \cap DOMAIN outbox' :
       /\ outbox'[i].created_at = outbox[i].created_at
       /\ \/ outbox'[i].retry_count >= outbox[i].retry_count
          \/ /\ outbox[i].status = "DEAD_LETTER"
             /\ outbox'[i].status = "PENDING"
             /\ outbox'[i].retry_count = 0
             /\ redrives' = redrives + 1]_vars

\* A redriven row that has failed again after a later clock tick: the counter
\* was reset, grew again, and created_at is still the insertion time.
C10_Witness ==
  \E i \in Ids :
    /\ redrives > 0
    /\ outbox[i].status = "FAILED"
    /\ outbox[i].retry_count = 1
    /\ delivered[i] > outbox[i].retry_count
    /\ outbox[i].created_at < now

\* C11: once a row is COMPLETED or DEAD_LETTER, no claim, finalize, lease
\* renewal or reaper step changes any of its fields; the row changes only by
\* the retention delete or, when it is DEAD_LETTER, by a redrive.
C11_TerminalRowsFrozen ==
  [][\A i \in DOMAIN outbox :
       outbox[i].status \in {"COMPLETED", "DEAD_LETTER"} =>
         \/ i \notin DOMAIN outbox'
         \/ outbox'[i] = outbox[i]
         \/ /\ outbox[i].status = "DEAD_LETTER"
            /\ redrives' = redrives + 1
            /\ outbox'[i] = redriveRows(outbox, {i}).rows[i]]_vars

\* A terminal row whose earlier claimer is still waiting for its publish to
\* return and will call its finalize statement on the terminal row.
C11_Witness ==
  \E i \in Ids : \E x \in Holders(i) :
    /\ outbox[i].status \in {"COMPLETED", "DEAD_LETTER"}
    /\ batch[x][i].pc = "publishing"

\* C12: a row whose lease has run out (locked_until < now) while its claimer
\* has not finalized it is claimed by the ClaimBatch of a worker with another
\* token.
C12_ExpiredLeaseIsClaimable ==
  \A i \in Ids : \A x \in Holders(i) :
    (/\ outbox[i].status = "PROCESSING"
     /\ outbox[i].lock_token = lockTokenOf(x)
     /\ outbox[i].locked_until < now)
      => \E S \in ClaimChoices(outbox, BatchSize) : i \in S

\* A PROCESSING row whose lease deadline has passed.
Stale(i) == outbox[i].status = "PROCESSING" /\ outbox[i].locked_until < now

C14_RecoverStaleEventsFrame ==
  [][ret'.op = "recoverStaleEvents" =>
       LET M == {i \in DOMAIN outbox : Stale(i)} IN
         /\ DOMAIN outbox' = DOMAIN outbox
         /\ \A i \in M :
              outbox'[i] = [outbox[i] EXCEPT !.status = "PENDING",
                                             !.locked_until = NULL, !.lock_token = NULL]
         /\ \A i \in DOMAIN outbox \ M : outbox'[i] = outbox[i]
         /\ ret'.rowCount = Cardinality(M)]_vars

\* recoverStaleEvents has recovered one row, which had failed before and
\* keeps its retry_count, next to a PROCESSING row whose lease has not run
\* out and which is still leased.
C14_Witness ==
  /\ ret.op = "recoverStaleEvents"
  /\ ret.rowCount = 1
  /\ outbox[1].status = "PROCESSING" /\ outbox[1].locked_until >= now
  /\ outbox[2].status = "PENDING" /\ outbox[2].retry_count = 1

\* C15: renewLease(id, token, lease) sets locked_until to now + lease and
\* returns true exactly when the row with that id has lock_token = token and
\* status PROCESSING; otherwise it changes nothing and returns false.
C15_RenewLeaseIffHeld ==
  [][ret'.op = "renewLease" =>
       LET id == ret'.id
           held == /\ id \in DOMAIN outbox
                   /\ outbox[id].lock_token = ret'.token
                   /\ outbox[id].status = "PROCESSING"
       IN IF held
            THEN /\ outbox' = [outbox EXCEPT ![id].locked_until = now + LeaseSeconds]
                 /\ ret'.rowCount = 1
            ELSE /\ outbox' = outbox
                 /\ ret'.rowCount = 0]_vars

\* renewLease has returned true for a row whose lease deadline is now
\* now + lease, next to a row leased under the other token, which a call with
\* the first token leaves alone.
C15_Witness ==
  /\ ret.op = "renewLease"
  /\ ret.rowCount = 1
  /\ outbox[ret.id].locked_until = now + LeaseSeconds
  /\ \E j \in DOMAIN outbox :
       /\ j # ret.id
       /\ outbox[j].status = "PROCESSING"
       /\ outbox[j].lock_token # ret.token
       /\ renewLease(outbox, j, ret.token, LeaseSeconds).rowCount = 0

\* C16: when the markCompleted, markFailed or markDeadLetter call of a worker
\* returns false (no row has its id under the worker's token), the worker
\* reports no outcome for the event: no processed / failed / dead-letter
\* event, no succeeded / failed / deadLettered count.
C16_LostEventNotReported ==
  [][\A x \in Execs : \A id \in DOMAIN batch[x] :
       (/\ batch[x][id].pc = "publishing"
        /\ id \notin DOMAIN batch'[x]
        /\ HeldBy(outbox, id, lockTokenOf(x)) = {})
         => reported'[x] = reported[x]]_vars

\* C17: after a renewLease call for an in-flight event has returned false,
\* the worker issues no further renewLease for it (its heartbeat timer is
\* cancelled) and makes no later markCompleted, markFailed or markDeadLetter
\* call for it: when the publisher returns, the event is dropped without a
\* statement on the table and without a reported outcome.
C17_AbandonsAfterLostLease ==
  [][\A x \in Execs : \A id \in DOMAIN batch[x] :
       batch[x][id].renewed = "false" =>
         /\ ~batch[x][id].hb
         /\ id \notin DOMAIN batch'[x] => (outbox' = outbox /\ reported' = reported)]_vars

\* C18: after stop() the heartbeat timer of every event that is still being
\* published stays set until the event is finalized or abandoned.
C18_HeartbeatSurvivesStop ==
  ~running => \A id \in InFlight("W") : batch["W"][id].hb

\* C19: stop() stops new claimBatch calls, and it completes only after every
\* in-flight event has been finalized or the shutdown deadline has elapsed.
\* stop() awaits nothing, so no time passes between its call and its return:
\* at the step that completes it no event may be in flight.
C19_StopWaitsForInFlight ==
  [][/\ (~running /\ ~running') => DOMAIN batch'["W"] \subseteq DOMAIN batch["W"]
     /\ (running /\ ~running') => InFlight("W") = {}]_vars

\* C20: any two worker instances constructed in the same process, whenever
\* they were constructed, hold different lock tokens.
C20_LockTokensUnique ==
  \A i \in DOMAIN tokens : \A j \in DOMAIN tokens :
    i # j => tokens[i].token # tokens[j].token

\* C21: claimBatch(batch_size, lease, token) returns at most batch_size rows,
\* the earliest by created_at among the rows that were PENDING or FAILED with
\* locked_until null or passed; each returned row is PROCESSING with
\* lock_token = token and locked_until = now + lease and is otherwise as
\* before; no other row is changed; no returned row was under the lease of
\* another caller.
C21_ClaimBatchContract ==
  [][ret'.op = "claimBatch" =>
       LET S == ret'.ids
           Ready == {i \in DOMAIN outbox :
                       /\ outbox[i].status \in {"PENDING", "FAILED"}
                       /\ (outbox[i].locked_until = NULL \/ outbox[i].locked_until < now)}
       IN /\ Cardinality(S) <= ret'.limit
          /\ S \subseteq Ready
          /\ Cardinality(S) = ret'.limit \/ S = Ready
          /\ \A i \in S : \A j \in Ready \ S : outbox[i].created_at <= outbox[j].created_at
          /\ \A i \in S :
               outbox'[i] = [outbox[i] EXCEPT !.status = "PROCESSING",
                                              !.locked_until = now + LeaseSeconds,
                                              !.lock_token = ret'.token]
          /\ \A i \in DOMAIN outbox \ S : outbox'[i] = outbox[i]
          /\ DOMAIN outbox' = DOMAIN outbox
          /\ \A i \in S : outbox[i].status # "PROCESSING"]_vars

\* claimBatch with batch size 1 has returned row 2, the earlier of two ready
\* rows by created_at, and has left the later row 1 as it was.
C21_Witness ==
  /\ ret.op = "claimBatch"
  /\ ret.limit = 1
  /\ ret.ids = {2}
  /\ outbox[2].status = "PROCESSING"
  /\ outbox[2].lock_token = ret.token
  /\ outbox[2].locked_until = now + LeaseSeconds
  /\ outbox[1].status \in {"PENDING", "FAILED"}
  /\ outbox[2].created_at < outbox[1].created_at

\* C22: redriveByEventType(t) and redriveById(i) change exactly the
\* DEAD_LETTER rows of type t, respectively the DEAD_LETTER row with id i:
\* such a row becomes PENDING with retry_count 0 and last_error null and is
\* otherwise as before; every other row is unchanged; redriveById returns
\* true iff it changed a row.
C22_RedriveScope ==
  [][ret'.op \in {"redriveById", "redriveByEventType"} =>
       LET M == IF ret'.op = "redriveById"
                  THEN {i \in DOMAIN outbox :
                          i = ret'.id /\ outbox[i].status = "DEAD_LETTER"}
                  ELSE {i \in DOMAIN outbox :
                          outbox[i].event_type = ret'.type /\ outbox[i].status = "DEAD_LETTER"}
       IN /\ DOMAIN outbox' = DOMAIN outbox
          /\ \A i \in M :
               outbox'[i] = [outbox[i] EXCEPT !.status = "PENDING",
                                              !.retry_count = 0,
                                              !.last_error = NoError]
          /\ \A i \in DOMAIN outbox \ M : outbox'[i] = outbox[i]
          /\ ret'.rowCount = Cardinality(M)
          /\ ret'.op = "redriveById" => (ret'.result <=> M # {})]_vars

\* redriveByEventType has returned one dead-lettered row of its type to
\* PENDING and has left alone a row of that type which was not dead-lettered.
C22_Witness ==
  /\ ret.op = "redriveByEventType"
  /\ ret.rowCount = 1
  /\ \E i, j \in DOMAIN outbox :
       /\ i # j
       /\ outbox[i].event_type = ret.type
       /\ outbox[j].event_type = ret.type
       /\ outbox[i].status = "PENDING"
       /\ outbox[i].processed_at # NULL
       /\ outbox[j].status \in {"COMPLETED", "FAILED", "PROCESSING"}

\* C26: for every cursor X >= 0 and limit N, a page requested with after = X
\* holds at most N rows, all with id > X, namely those with the N smallest
\* such ids, in descending id order, and hasMore is true iff more than N rows
\* with id > X existed.
C26_PageAfterCursor ==
  (ret.op = "getRecentEvents" /\ ret.after # NULL /\ ret.before = NULL) =>
    LET A == {i \in DOMAIN outbox : i > ret.after}
        ids == {ret.events[k] : k \in 1..Len(ret.events)}
    IN /\ Len(ret.events) <= ret.limit
       /\ ids \subseteq A
       /\ Len(ret.events) = ret.limit \/ ids = A
       /\ \A i \in ids : \A j \in A \ ids : i < j
       /\ \A k \in 1..(Len(ret.events) - 1) : ret.events[k] > ret.events[k + 1]
       /\ ret.hasMore <=> Cardinality(A) > ret.limit

C24_AtMostOneExecution ==
  \A t \in TrackingIds, c \in ConsumerIds :
    Cardinality({k \in DOMAIN calls :
                   /\ calls[k].op = "withIdempotency"
                   /\ calls[k].t = t
                   /\ calls[k].c = c
                   /\ executed(calls[k])}) <= 1

\* C24 (amended): a withIdempotency call executes the wrapped function only
\* in the step in which its own markProcessed inserted the record of its
\* tracking id and consumer, so at most once per retained record; a call that
\* found a record or whose markProcessed returned false never executes it;
\* the record stays when the function returns or throws.
C24_ExecutesOnlyOnInsert ==
  [][\A k \in DOMAIN calls' :
       /\ (calls'[k].op = "withIdempotency" /\ executed(calls'[k])
             /\ (k \in DOMAIN calls => ~executed(calls[k]))) =>
            /\ k \in DOMAIN calls
            /\ ~inboxHas(inbox, calls[k].t, calls[k].c)
            /\ inboxHas(inbox', calls[k].t, calls[k].c)
       /\ (k \in DOMAIN calls /\ calls[k].pc = "skipped") => calls'[k].pc = "skipped"
       /\ (k \in DOMAIN calls /\ calls[k].pc = "fn" /\ calls'[k].pc \in {"returned", "threw"}) =>
            inbox' = inbox]_vars

\* The function of one call threw, its record is still in the inbox, and a
\* later call for the same tracking id and consumer was skipped.
C24_Witness ==
  \E j, k \in DOMAIN calls :
    /\ j # k
    /\ calls[j].t = calls[k].t
    /\ calls[j].c = calls[k].c
    /\ calls[j].pc = "threw"
    /\ calls[k].op = "withIdempotency"
    /\ calls[k].pc = "skipped"
    /\ inboxHas(inbox, calls[j].t, calls[j].c)

\* C25 (as stated): when the pending count exceeds max_backlog_size,
\* checkLimit rejects with BacklogLimitExceededError under 'throw', logs and
\* does not reject under 'warn', and returns the not-enqueued signal (false)
\* under 'drop'; when the pending count does not exceed max_backlog_size it
\* permits the insert (true).
C25_LimitOnExceed ==
  ret.op = "checkLimit" =>
    IF ret.currentSize > ret.maxBacklogSize
      THEN /\ ret.onLimitExceeded = "throw" => ret.outcome = "BacklogLimitExceededError"
           /\ ret.onLimitExceeded = "warn" => (ret.outcome \in {"true", "false"} /\ ret.log # "none")
           /\ ret.onLimitExceeded = "drop" => ret.outcome = "false"
      ELSE ret.outcome = "true"

\* C25 (amended): when the pending count has reached max_backlog_size
\* (count >= max), checkLimit rejects with BacklogLimitExceededError under
\* 'throw', and under 'warn' and under 'drop' alike logs a warning and
\* returns false; below the limit it returns true without logging.
C25_LimitOnReach ==
  ret.op = "checkLimit" =>
    IF ret.currentSize >= ret.maxBacklogSize
      THEN /\ ret.onLimitExceeded = "throw" =>
                (ret.outcome = "BacklogLimitExceededError" /\ ret.log = "none")
           /\ ret.onLimitExceeded = "warn" => (ret.outcome = "false" /\ ret.log = "WARNING")
           /\ ret.onLimitExceeded = "drop" => (ret.outcome = "false" /\ ret.log = "DROPPING")
      ELSE ret.outcome = "true" /\ ret.log = "none"

\* checkLimit in 'warn' mode was consulted with the pending count equal to
\* max_backlog_size and returned false.
C25_Witness ==
  /\ ret.op = "checkLimit"
  /\ ret.currentSize = ret.maxBacklogSize
  /\ ret.currentSize = getPendingCount(outbox)
  /\ ret.onLimitExceeded = "warn"
  /\ ret.outcome = "false"

\* C27: the overall health status is the worst of the pending count, the
\* oldest-pending age and the dead-letter count, each judged on its own
\* against its degraded and unhealthy thresholds.
C27_WorstOfIndependentChecks ==
  ret.op = "check" =>
    LET m == ret.metrics
        cfg == ret.config
        byCount == IF m.pendingTotal > cfg.maxPendingForDegraded THEN "unhealthy"
                   ELSE IF m.pendingTotal > cfg.maxPendingForHealthy THEN "degraded"
                   ELSE "healthy"
        byLag == IF m.oldestPendingAgeSeconds > cfg.maxLagSecondsDegraded THEN "unhealthy"
                 ELSE IF m.oldestPendingAgeSeconds > cfg.maxLagSecondsHealthy THEN "degraded"
                 ELSE "healthy"
        byDeadLetter == IF m.deadLetterTotal > cfg.maxDeadLetterForHealthy * 2 THEN "unhealthy"
                        ELSE IF m.deadLetterTotal > cfg.maxDeadLetterForHealthy THEN "degraded"
                        ELSE "healthy"
        all == {byCount, byLag, byDeadLetter}
    IN ret.status = IF "unhealthy" \in all THEN "unhealthy"
                    ELSE IF "degraded" \in all THEN "degraded"
                    ELSE "healthy"

\* C28: while a worker is running, the lease of every event it has claimed
\* and not yet finalized never expires: the row stays PROCESSING under the
\* worker's token with locked_until not in the past, however long the
\* publisher calls take.
C28_LeaseNeverExpires ==
  \A x \in Execs : \A i \in DOMAIN batch[x] :
    (x = "W" => running) =>
      /\ i \in Ids
      /\ outbox[i].status = "PROCESSING"
      /\ outbox[i].lock_token = lockTokenOf(x)
      /\ outbox[i].locked_until >= now

\* C29: a worker whose lease on an event has expired (locked_until < now)
\* cannot change the row: the markCompleted, markFailed, markDeadLetter or
\* renewLease it issues after the expiry leaves the row unchanged.
C29_ExpiredLeaseCannotMutate ==
  [][\A x \in Execs : \A id \in InFlight(x) :
       (/\ outbox[id].locked_until # NULL
        /\ outbox[id].locked_until < now
        /\ \/ id \notin DOMAIN batch'[x]
           \/ batch'[x][id].renewed # batch[x][id].renewed)
         => (id \in DOMAIN outbox' /\ outbox'[id] = outbox[id])]_vars

\* C30: at any moment a worker has at most `concurrency` publisher.publish
\* calls outstanding.
C30_AtMostConcurrencyOutstanding ==
  Cardinality(Outstanding) <= PollConcurrency

\* C40: in every reachable state processed_at is non-null only for rows whose
\* status is COMPLETED or DEAD_LETTER; a PENDING, FAILED or PROCESSING row,
\* one returned to PENDING by redrive included, has processed_at null.
C40_ProcessedAtOnlyWhenTerminal ==
  \A i \in Ids :
    outbox[i].processed_at # NULL => outbox[i].status \in {"COMPLETED", "DEAD_LETTER"}

\* C31: whenever a poll loop finishes a batch, it goes on to claim again
\* immediately if claimBatch had returned exactly batch_size events, and it
\* waits poll_interval (or ends, once stopped) otherwise.
C31_ImmediateOnFullBatch ==
  [][\A l \in DOMAIN polls :
       (polls[l].pc \in {"claimBatch", "processBatch"}
          /\ polls'[l].pc \in {"immediate", "sleeping", "ended"})
       => IF Cardinality(DOMAIN polls'[l].events) = PollBatchSize
            THEN polls'[l].pc = "immediate"
            ELSE polls'[l].pc \in {"sleeping", "ended"}]_vars

\* C34: after any sequence of start() and stop() on one instance at most one
\* poll loop is active and at most one reaper timer is armed.
C34_AtMostOneLoop ==
  Cardinality({l \in DOMAIN polls : polls[l].pc # "ended"}) <= 1

\* C35: a NotifyRelay never has two execute() runs in progress at the same
\* time: its two runs never both hold a claimed batch that is not finished.
C35_OneExecuteAtATime ==
  ~(DOMAIN batch["N1"] # {} /\ DOMAIN batch["N2"] # {})

\* C33: a finalize decided from an earlier claim's snapshot never succeeds
\* once the event has failed and been claimed again, whatever the token of the
\* later claim: when a run finalizes an event whose row no longer has the
\* retry_count the run read at its claim, the row is left as it is.
C33_StaleFinalizeNeverSucceeds ==
  [][\A x \in Execs : \A id \in InFlight(x) :
       (/\ id \notin DOMAIN batch'[x]
        /\ id \in DOMAIN outbox
        /\ batch[x][id].retryCount # outbox[id].retry_count)
         => (id \in DOMAIN outbox' /\ outbox'[id] = outbox[id])]_vars

\* C36: markFailed and markDeadLetter are called only if the publisher returned
\* a failure or threw: when the publish of an event has succeeded, the
\* finalize of that event does not increment retry_count and does not
\* dead-letter or fail the row, even if its markCompleted raised an error.
C36_SuccessNeverCountsAsFailure ==
  [][\A l \in DOMAIN polls : \A id \in DOMAIN polls[l].events :
       (/\ polls[l].events[id].st = "publishing"
        /\ l \in DOMAIN polls' /\ id \in DOMAIN polls'[l].events
        /\ polls'[l].events[id].st = "done"
        /\ polls'[l].events[id].published = "success")
         => /\ outbox'[id].retry_count = outbox[id].retry_count
            /\ outbox'[id].status \in {outbox[id].status, "COMPLETED"}]_vars

\* C39: idempotency is per consumer: a withIdempotency call for consumer c and
\* tracking id t is skipped only when a record of t for c itself exists; the
\* record of another consumer for t never makes it skip.
C39_SkipOnlyOnOwnRecord ==
  [][\A k \in DOMAIN calls :
       (calls[k].op = "withIdempotency" /\ calls[k].pc # "skipped" /\ calls'[k].pc = "skipped")
         => inboxHas(inbox, calls[k].t, calls[k].c)]_vars

\* C32: an iteration of an EventStream that has ended has yielded every stored
\* event that matches the filters exactly once and no other event, for any
\* number of stored events, more than batchSize included.
C32_YieldsEachMatchingOnce ==
  (ret.op = "EventStream" /\ ~ret.hasMore) =>
    \A i \in DOMAIN outbox :
      Cardinality({k \in 1..Len(ret.yielded) : ret.yielded[k] = i})
        = IF matchesFilters(outbox[i], ret.eventType) THEN 1 ELSE 0

\* C38: when every producer calls checkLimit in 'throw' mode before each
\* insert and inserts only if it did not throw, the number of PENDING rows
\* never exceeds max_backlog_size, concurrent producers included.
C38_BacklogNeverExceedsMax ==
  \A k \in DOMAIN calls :
    calls[k].op = "produce" => getPendingCount(outbox) <= calls[k].maxBacklogSize

\* C37: with one relay kept running, a publisher that always returns, no
\* redrive and no further inserts after some point, every event eventually
\* reaches COMPLETED or DEAD_LETTER.
C37_EveryEventSettles ==
  \A i \in 1..MaxNotifyEvents :
    (i \in DOMAIN outbox)
      ~> (i \in DOMAIN outbox /\ outbox[i].status \in {"COMPLETED", "DEAD_LETTER"})

\* ---------------------------------------------------------------------
TypeOK ==
  /\ nextId \in 1..(MaxEvents + 1)
  /\ now \in 0..MaxTime
  /\ \A i \in Ids : outbox[i].status \in {"PENDING", "PROCESSING", "COMPLETED", "FAILED", "DEAD_LETTER"}
====
